---- MODULE Spec2Model ----
(***************************************************************************)
(* The namespaced watch cache of the cloud controller manager operator:    *)
(* namespacedCache (Watch, watch, getInformer, ensureNamespace, watchKey)  *)
(* and its eventToChannelHandler.                                          *)
(*                                                                         *)
(* Watch takes no lock and runs on the caller's goroutine, so a call is    *)
(* modelled as the sequence of its accesses to the shared maps (caches,    *)
(* watchedResources, the inner key sets, the informer's handler list);     *)
(* every step carries the source lines it covers in its label.  Spec has  *)
(* one caller, EventSpec adds the delivery of changes to the event stream, *)
(* ConcSpec interleaves the calls of several goroutines at their steps,    *)
(* LiveSpec has a consumer that keeps receiving, CancelSpec lets the       *)
(* sessions' contexts end, StreamSpec adds calls of EventStream, KeySpec   *)
(* watches objects that differ in one part of their identity.  GroupSpec   *)
(* is OwnedResourcesGroup of package cloud on every input in the bounds.   *)
(***************************************************************************)
EXTENDS Naturals, Sequences, FiniteSets

\* ------------------------------------------------------------------ bounds
NThreads == 2
MaxCalls == 3
MaxEvents == 2
MaxWatches == 2
MaxConcCalls == 2
MaxLiveWatches == 2
MaxLiveEvents == 1
MaxCancelEvents == 2
MaxStreamCalls == 2
MaxPlatforms == 2
MaxResources == 2

Threads == 1..NThreads

\* ------------------------------------------------- the cluster's type data
\* client.Object: the Go type fixes group, version and kind.
ConfigMapV1 == [group |-> "", version |-> "v1", kind |-> "ConfigMap"]
NodeV1 == [group |-> "", version |-> "v1", kind |-> "Node"]
WidgetV1 == [group |-> "example.io", version |-> "v1", kind |-> "Widget"]
GadgetV1 == [group |-> "example.io", version |-> "v1", kind |-> "Gadget"]
\* A type of the ConfigMap group-kind in another version.
ConfigMapV1beta1 == [group |-> "", version |-> "v1beta1", kind |-> "ConfigMap"]

\* runtime.Scheme: the types registered (Gadget is not).
Scheme == {ConfigMapV1, ConfigMapV1beta1, NodeV1, WidgetV1}

GroupKind(gvk) == [group |-> gvk.group, kind |-> gvk.kind]

\* meta.RESTMapper: group-kind -> scope; Widget is registered in the scheme
\* and has no REST mapping.
NamespacedKinds == {GroupKind(ConfigMapV1)}
ClusterKinds == {GroupKind(NodeV1)}

Namespaces == {"", "ns1", "ns2"}
Names == {"a", "b"}

Obj(gvk, ns, name) == [gvk |-> gvk, ns |-> ns, name |-> name]

\* The objects handed to Watch.
Objs ==
  { Obj(ConfigMapV1, "ns1", "a"), Obj(ConfigMapV1, "ns1", "b"),
    Obj(ConfigMapV1, "ns2", "a"), Obj(ConfigMapV1, "", "a"),
    Obj(NodeV1, "", "a"), Obj(NodeV1, "ns1", "a"),
    Obj(WidgetV1, "ns1", "a"), Obj(GadgetV1, "ns1", "a") }

NoObj == [gvk |-> ConfigMapV1, ns |-> "", name |-> ""]

\* --------------------------------------------------------- pure functions
\* apiutil.GVKForObject(obj, n.scheme)
GVKForObject(o) ==
  IF o.gvk \in Scheme THEN [err |-> FALSE, gvk |-> o.gvk]
  ELSE [err |-> TRUE, gvk |-> o.gvk]

\* n.mapper.RESTMapping(gk)
RESTMapping(gk) ==
  IF gk \in NamespacedKinds THEN [err |-> FALSE, scope |-> "namespace"]
  ELSE IF gk \in ClusterKinds THEN [err |-> FALSE, scope |-> "root"]
  ELSE [err |-> TRUE, scope |-> ""]

isNamespaced(o) ==
  LET g == GVKForObject(o) IN
  IF g.err THEN [err |-> TRUE, namespaced |-> FALSE]
  ELSE LET m == RESTMapping(GroupKind(g.gvk)) IN
       IF m.err THEN [err |-> TRUE, namespaced |-> FALSE]
       ELSE [err |-> FALSE, namespaced |-> (m.scope = "namespace")]

\* schema.GroupKind.String()
GroupKindString(gk) ==
  IF gk.group = "" THEN gk.kind ELSE gk.kind \o "." \o gk.group

\* A key that carries the version as well.
watchKeyOfVersioned(o) ==
  GroupKindString(GroupKind(o.gvk)) \o "/" \o o.gvk.version \o "/" \o o.name

\* fmt.Sprintf("%s/%s", gvk.GroupKind().String(), obj.GetName())
watchKeyOf(o) == GroupKindString(GroupKind(o.gvk)) \o "/" \o o.name

watchKey(o) ==
  LET g == GVKForObject(o) IN
  IF g.err THEN [err |-> TRUE, key |-> ""]
  ELSE [err |-> FALSE, key |-> watchKeyOf(o)]

\* ------------------------------------------------------------------ state
VARIABLES
  caches,            \* n.caches: namespace -> session (0: no entry)
  sessions,          \* every cache.Cache built by cache.New, in order
  handlers,          \* every eventToChannelHandler attached, in order
  watchedResources,  \* n.watchedResources: namespace -> inner map (0: none)
  maps,              \* the inner map[string]struct{} values, by reference
  pc,                \* per goroutine: the line its Watch call stands at
  obj,               \* per goroutine: the obj of its current / last call
  namespacedWatches, \* per goroutine: the local namespacedWatches
  informer,          \* per goroutine: the session of the local informer
  ret,               \* per goroutine: the value and the line of the
                     \* return statement its last call ended at
  stepErr,           \* per goroutine: the err its call saw ("none": none)
  nCalls,            \* Watch calls made so far
  observed,          \* changes the sessions have observed, in order
  received,          \* what the consumer took from EventStream(), in order
  eventChan,         \* n.eventChan: the channel the field holds
  streams,           \* what the calls of EventStream() returned, in order
  resourceUnion,     \* OwnedResourcesGroup: the platforms' resource lists
  ownedResult        \* OwnedResourcesGroup: whether it returned, and what

vars == << caches, sessions, handlers, watchedResources, maps, pc, obj,
           namespacedWatches, informer, ret, stepErr, nCalls, observed,
           received, eventChan, streams, resourceUnion, ownedResult >>

cacheVars == << caches, sessions, handlers, watchedResources, maps >>
callVars == << pc, obj, namespacedWatches, informer, ret, stepErr, nCalls >>
eventVars == << observed, received >>
\* What no step of Watch and no handler touches.
otherVars == << eventChan, streams, resourceUnion, ownedResult >>

NoRet == [val |-> "none", line |-> 0]

\* OwnedResourcesGroup has not returned.
NotReturned == [returned |-> FALSE, val |-> << >>]

\* NewNamespacedCache, lines 57-65: empty maps, an unbuffered channel.
NewNamespacedCache ==
  /\ caches = [ns \in Namespaces |-> 0]
  /\ sessions = << >>
  /\ handlers = << >>
  /\ watchedResources = [ns \in Namespaces |-> 0]
  /\ maps = << >>
  /\ pc = [t \in Threads |-> "idle"]
  /\ obj = [t \in Threads |-> NoObj]
  /\ namespacedWatches = [t \in Threads |-> 0]
  /\ informer = [t \in Threads |-> 0]
  /\ ret = [t \in Threads |-> NoRet]
  /\ stepErr = [t \in Threads |-> "none"]
  /\ nCalls = 0
  /\ observed = << >>
  /\ received = << >>
  /\ eventChan = 1
  /\ streams = << >>

Init ==
  /\ NewNamespacedCache
  /\ resourceUnion = << >>
  /\ ownedResult = NotReturned

\* ------------------------------------------------------------ Watch steps
\* The call of goroutine t returns val at the return statement of line l,
\* having seen the error e; its locals die.
Return(t, val, l, e) ==
  /\ pc' = [pc EXCEPT ![t] = "idle"]
  /\ ret' = [ret EXCEPT ![t] = [val |-> val, line |-> l]]
  /\ stepErr' = [stepErr EXCEPT ![t] = e]
  /\ namespacedWatches' = [namespacedWatches EXCEPT ![t] = 0]
  /\ informer' = [informer EXCEPT ![t] = 0]

Goto(t, l) ==
  /\ pc' = [pc EXCEPT ![t] = l]
  /\ UNCHANGED << ret, stepErr >>

\* The caller's goroutine t calls Watch(ctx, o), line 82.
WatchCall(t, o) ==
  /\ UNCHANGED otherVars
  /\ pc[t] = "idle"
  /\ nCalls < MaxCalls
  /\ nCalls' = nCalls + 1
  /\ obj' = [obj EXCEPT ![t] = o]
  /\ pc' = [pc EXCEPT ![t] = "L84"]
  /\ ret' = [ret EXCEPT ![t] = NoRet]
  /\ stepErr' = [stepErr EXCEPT ![t] = "none"]
  /\ UNCHANGED << cacheVars, eventVars, namespacedWatches, informer >>

\* ensureNamespace without the empty-namespace test of lines 181-183.
ensureNamespaceNoCheck(o) ==
  IF isNamespaced(o).err THEN "discovery" ELSE "none"

\* The error of ensureNamespace(o), lines 176-185; "none" when it returns
\* nil.
ensureNamespace(o) ==
  LET r == isNamespaced(o) IN
  IF r.err THEN "discovery"
  ELSE IF r.namespaced /\ o.ns = "" THEN "namespace"
  ELSE "none"

\* Watch, lines 84-97: validation, the lookup of the namespace's key set,
\* the key.
WatchEnter(t) ==
  /\ UNCHANGED otherVars
  /\ pc[t] = "L84"
  /\ UNCHANGED << cacheVars, eventVars, obj, nCalls >>
  /\ IF ensureNamespace(obj[t]) # "none"
     THEN Return(t, "err", 85, ensureNamespace(obj[t]))
     ELSE IF watchedResources[obj[t].ns] = 0
     THEN /\ Goto(t, "L108")
          /\ UNCHANGED << namespacedWatches, informer >>
     ELSE IF watchKey(obj[t]).err
     THEN Return(t, "err", 96, "key")
     ELSE /\ Goto(t, "L99")
          /\ namespacedWatches' =
               [namespacedWatches EXCEPT ![t] = watchedResources[obj[t].ns]]
          /\ UNCHANGED informer

\* Watch without the test of line 99: every call goes on to watch.
WatchLookupNoDedup(t) ==
  /\ UNCHANGED otherVars
  /\ pc[t] = "L99"
  /\ UNCHANGED << cacheVars, eventVars, obj, nCalls, namespacedWatches,
                  informer >>
  /\ Goto(t, "L108")

\* Watch, lines 99-104: the lookup of the key in the namespace's key set.
WatchLookup(t) ==
  /\ UNCHANGED otherVars
  /\ pc[t] = "L99"
  /\ UNCHANGED << cacheVars, eventVars, obj, nCalls >>
  /\ IF watchKey(obj[t]).key \in maps[namespacedWatches[t]]
     THEN Return(t, "nil", 104, "none")
     ELSE /\ Goto(t, "L108")
          /\ UNCHANGED << namespacedWatches, informer >>

\* watch line 108 into getInformer, lines 139-147: the pool lookup and, on
\* a hit, the session's GetInformer (ok: whether it succeeds).  watch
\* returns nil on an error of getInformer (line 110).
GetInformerCached(t, ok) ==
  /\ UNCHANGED otherVars
  /\ pc[t] = "L108"
  /\ UNCHANGED << cacheVars, eventVars, obj, nCalls >>
  /\ IF ensureNamespace(obj[t]) # "none"
     THEN /\ ok
          /\ Return(t, "nil", 110, ensureNamespace(obj[t]))
     ELSE IF caches[obj[t].ns] = 0
     THEN /\ ok
          /\ Goto(t, "L149")
          /\ UNCHANGED << namespacedWatches, informer >>
     ELSE IF ok
     THEN /\ Goto(t, "L114")
          /\ informer' = [informer EXCEPT ![t] = caches[obj[t].ns]]
          /\ UNCHANGED namespacedWatches
     ELSE Return(t, "nil", 110, "accessor")

\* The cache.Cache of lines 149-159 for namespace ns, started under the
\* caller's context; done says that this context has ended.
NewSession(ns) == [ns |-> ns, done |-> FALSE]

\* getInformer storing the pool entry before the error test of line 155.
GetInformerNewEarlyStore(t, newOk, ok) ==
  /\ UNCHANGED otherVars
  /\ pc[t] = "L149"
  /\ UNCHANGED << handlers, watchedResources, maps, eventVars, obj, nCalls >>
  /\ sessions' = Append(sessions, NewSession(obj[t].ns))
  /\ caches' = [caches EXCEPT ![obj[t].ns] = Len(sessions) + 1]
  /\ IF ~newOk
     THEN ok /\ Return(t, "nil", 110, "construction")
     ELSE IF ok
     THEN /\ Goto(t, "L114")
          /\ informer' = [informer EXCEPT ![t] = Len(sessions) + 1]
          /\ UNCHANGED namespacedWatches
     ELSE Return(t, "nil", 110, "accessor")

\* getInformer emptying the pool when cache.New fails.
GetInformerNewDropPool(t, newOk, ok) ==
  /\ UNCHANGED otherVars
  /\ pc[t] = "L149"
  /\ UNCHANGED << handlers, watchedResources, maps, eventVars, obj, nCalls >>
  /\ IF ~newOk
     THEN /\ ok
          /\ Return(t, "nil", 110, "construction")
          /\ caches' = [ns \in Namespaces |-> 0]
          /\ UNCHANGED sessions
     ELSE /\ sessions' = Append(sessions, NewSession(obj[t].ns))
          /\ caches' = [caches EXCEPT ![obj[t].ns] = Len(sessions) + 1]
          /\ IF ok
             THEN /\ Goto(t, "L114")
                  /\ informer' = [informer EXCEPT ![t] = Len(sessions) + 1]
                  /\ UNCHANGED namespacedWatches
             ELSE Return(t, "nil", 110, "accessor")

\* getInformer, lines 149-161: cache.New (newOk: whether it succeeds), the
\* pool entry, go c.Start(ctx), GetInformer (ok).
GetInformerNew(t, newOk, ok) ==
  /\ UNCHANGED otherVars
  /\ pc[t] = "L149"
  /\ UNCHANGED << handlers, watchedResources, maps, eventVars, obj, nCalls >>
  /\ IF ~newOk
     THEN /\ ok
          /\ Return(t, "nil", 110, "construction")
          /\ UNCHANGED << caches, sessions >>
     ELSE /\ sessions' = Append(sessions, NewSession(obj[t].ns))
          /\ caches' = [caches EXCEPT ![obj[t].ns] = Len(sessions) + 1]
          /\ IF ok
             THEN /\ Goto(t, "L114")
                  /\ informer' = [informer EXCEPT ![t] = Len(sessions) + 1]
                  /\ UNCHANGED namespacedWatches
             ELSE Return(t, "nil", 110, "accessor")

\* The eventToChannelHandler of lines 121-124, on the informer of o's type
\* in session s; its inbox holds the notifications the informer has handed
\* it, sending says that it stands in the channel send of line 227.
NewHandler(s, o) ==
  [session |-> s, gvk |-> o.gvk, name |-> o.name, eventsChan |-> eventChan,
   inbox |-> << >>, sending |-> FALSE]

\* watch without the AddEventHandler call of lines 121-124.
AddEventHandlerOmitted(t) ==
  /\ UNCHANGED otherVars
  /\ pc[t] = "L114"
  /\ UNCHANGED << cacheVars, eventVars, obj, nCalls, namespacedWatches,
                  informer >>
  /\ Goto(t, "L126")

\* watch, lines 113-124: the key, then informer.AddEventHandler.
AddEventHandler(t) ==
  /\ UNCHANGED otherVars
  /\ pc[t] = "L114"
  /\ UNCHANGED << caches, sessions, watchedResources, maps, eventVars, obj,
                  nCalls >>
  /\ IF watchKey(obj[t]).err
     THEN /\ Return(t, "err", 116, "key")
          /\ UNCHANGED handlers
     ELSE /\ handlers' = Append(handlers, NewHandler(informer[t], obj[t]))
          /\ Goto(t, "L126")
          /\ UNCHANGED << namespacedWatches, informer >>

\* watch, lines 126-127: the lookup of the namespace's key set.
RegistryLookup(t) ==
  /\ UNCHANGED otherVars
  /\ pc[t] = "L126"
  /\ UNCHANGED << cacheVars, eventVars, obj, informer, nCalls >>
  /\ namespacedWatches' =
       [namespacedWatches EXCEPT ![t] = watchedResources[obj[t].ns]]
  /\ IF watchedResources[obj[t].ns] = 0
     THEN Goto(t, "L128")
     ELSE Goto(t, "L131")

\* watch, lines 128-129: a new key set for the namespace.
RegistryCreate(t) ==
  /\ UNCHANGED otherVars
  /\ pc[t] = "L128"
  /\ UNCHANGED << caches, sessions, handlers, eventVars, obj, informer,
                  nCalls >>
  /\ maps' = Append(maps, {})
  /\ watchedResources' =
       [watchedResources EXCEPT ![obj[t].ns] = Len(maps) + 1]
  /\ namespacedWatches' = [namespacedWatches EXCEPT ![t] = Len(maps) + 1]
  /\ Goto(t, "L131")

\* watch, lines 131-133: the key is recorded in the local key set.
RegistryRecord(t) ==
  /\ UNCHANGED otherVars
  /\ pc[t] = "L131"
  /\ UNCHANGED << caches, sessions, handlers, watchedResources, eventVars,
                  obj, nCalls >>
  /\ maps' = [maps EXCEPT ![namespacedWatches[t]] =
                @ \cup {watchKey(obj[t]).key}]
  /\ Return(t, "nil", 133, "none")

WatchStep(t) ==
  \/ WatchEnter(t)
  \/ WatchLookup(t)
  \/ \E ok \in BOOLEAN : GetInformerCached(t, ok)
  \/ \E newOk, ok \in BOOLEAN : GetInformerNew(t, newOk, ok)
  \/ AddEventHandler(t)
  \/ RegistryLookup(t)
  \/ RegistryCreate(t)
  \/ RegistryRecord(t)

\* ---------------------------------------------------------------- delivery
\* What the informer hands a handler: the object or, on a delete whose
\* final state was missed, a cache.DeletedFinalStateUnknown tombstone.
Payloads == {"object", "tombstone"}

OnInformer(h, s, gvk) == h.session = s /\ h.gvk = gvk

\* Session s, its context not done, observes a change (an add, an update or
\* a delete) of the object of type gvk called name; its informer hands the
\* notification to every handler attached to it.
Observe(s, gvk, name, payload) ==
  /\ UNCHANGED otherVars
  /\ Len(observed) < MaxEvents
  /\ ~sessions[s].done
  /\ \E i \in DOMAIN handlers : OnInformer(handlers[i], s, gvk)
  /\ observed' = Append(observed,
       [session |-> s, gvk |-> gvk, name |-> name, payload |-> payload,
        to |-> {i \in DOMAIN handlers : OnInformer(handlers[i], s, gvk)}])
  /\ handlers' =
       [i \in DOMAIN handlers |->
          IF OnInformer(handlers[i], s, gvk)
          THEN [handlers[i] EXCEPT !.inbox =
                  Append(@, [id |-> Len(observed) + 1, payload |-> payload,
                             name |-> name])]
          ELSE handlers[i]]
  /\ UNCHANGED << caches, sessions, watchedResources, maps, callVars,
                  received >>

\* queueEventForObject, lines 213-229, of a handler bound to name e on the
\* notification n: TRUE when it reaches the channel send of line 227.  The
\* branch of lines 222-224 has an empty body, so control falls through it.
queueEventForObject(e, n) ==
  IF n.payload = "nil" THEN FALSE
  ELSE IF n.payload # "object" THEN FALSE
  ELSE IF n.name # e THEN TRUE
  ELSE TRUE

\* A handler whose send gives up when no receiver stands ready: the
\* notification is dropped.
HandleDropping(i) ==
  /\ UNCHANGED otherVars
  /\ ~sessions[handlers[i].session].done
  /\ ~handlers[i].sending
  /\ handlers[i].inbox # << >>
  /\ handlers' = [handlers EXCEPT ![i].inbox = Tail(@)]
  /\ UNCHANGED << caches, sessions, watchedResources, maps, callVars,
                  eventVars >>

\* Handler i is called with the next notification of its inbox and runs
\* queueEventForObject on it; a session whose context is done calls its
\* handlers no more.
Handle(i) ==
  /\ UNCHANGED otherVars
  /\ ~sessions[handlers[i].session].done
  /\ ~handlers[i].sending
  /\ handlers[i].inbox # << >>
  /\ IF queueEventForObject(handlers[i].name, Head(handlers[i].inbox))
     THEN handlers' = [handlers EXCEPT ![i].sending = TRUE]
     ELSE handlers' = [handlers EXCEPT ![i].inbox = Tail(@)]
  /\ UNCHANGED << caches, sessions, watchedResources, maps, callVars,
                  eventVars >>

\* Lines 200-202: the change was an add.
OnAdd(i) == Handle(i) /\ Head(handlers[i].inbox).payload = "object"

\* Lines 204-206: the change was an update.
OnUpdate(i) == Handle(i) /\ Head(handlers[i].inbox).payload = "object"

\* Lines 208-210: the change was a delete.
OnDelete(i) == Handle(i)

\* The consumer receives from EventStream(): the send of line 227 of one
\* handler standing in it completes.
Receive(i) ==
  /\ UNCHANGED otherVars
  /\ handlers[i].sending
  /\ received' = Append(received,
       [id |-> Head(handlers[i].inbox).id,
        name |-> Head(handlers[i].inbox).name, handler |-> i])
  /\ handlers' = [handlers EXCEPT ![i].sending = FALSE,
                                  ![i].inbox = Tail(@)]
  /\ UNCHANGED << caches, sessions, watchedResources, maps, callVars,
                  observed >>

Delivery ==
  \/ \E s \in DOMAIN sessions, gvk \in Scheme, name \in Names :
       \E payload \in Payloads : Observe(s, gvk, name, payload)
  \/ \E i \in DOMAIN handlers : OnAdd(i)
  \/ \E i \in DOMAIN handlers : OnUpdate(i)
  \/ \E i \in DOMAIN handlers : OnDelete(i)
  \/ \E i \in DOMAIN handlers : Receive(i)

\* EventStream making a channel of its own at every call.
EventStreamFresh ==
  /\ Len(streams) < MaxStreamCalls
  /\ eventChan' = eventChan + 1
  /\ streams' = Append(streams, eventChan')
  /\ UNCHANGED << cacheVars, callVars, eventVars, resourceUnion,
                  ownedResult >>

\* EventStream, lines 78-80: returns n.eventChan.
EventStream ==
  /\ Len(streams) < MaxStreamCalls
  /\ streams' = Append(streams, eventChan)
  /\ UNCHANGED << cacheVars, callVars, eventVars, eventChan, resourceUnion,
                  ownedResult >>

\* The context ends and the pool entry of the session's namespace is
\* deleted with it.
CancelEvicting(s) ==
  /\ UNCHANGED otherVars
  /\ ~sessions[s].done
  /\ sessions' = [sessions EXCEPT ![s].done = TRUE]
  /\ caches' = [caches EXCEPT ![sessions[s].ns] = 0]
  /\ UNCHANGED << handlers, watchedResources, maps, callVars, eventVars >>

\* The context under which session s was started (go c.Start(ctx), line
\* 159) ends: the session stops.  Nothing of namespacedCache waits on the
\* context, and a handler standing in the send of line 227 stays there.
Cancel(s) ==
  /\ UNCHANGED otherVars
  /\ ~sessions[s].done
  /\ sessions' = [sessions EXCEPT ![s].done = TRUE]
  /\ UNCHANGED << caches, handlers, watchedResources, maps, callVars,
                  eventVars >>

\* ----------------------------------------------------- OwnedResourcesGroup
\* The client.Objects a platform may list: two of one type, one of a type
\* that differs from it in the version only.
Resources ==
  { [gvk |-> ConfigMapV1, name |-> "a"], [gvk |-> ConfigMapV1, name |-> "b"],
    [gvk |-> ConfigMapV1beta1, name |-> "a"] }

\* The OwnedResources values of up to MaxResources objects.
ResourceLists == UNION { [1..n -> Resources] : n \in 0..MaxResources }

\* The values of resourceUnion, line 13: the lists of up to MaxPlatforms
\* platforms.
ResourceUnions == UNION { [1..n -> ResourceLists] : n \in 0..MaxPlatforms }

\* The loop body keyed by group-kind in place of the GroupVersionKind.
visitResourceByKind(st, resource) ==
  LET objType == GroupKind(resource.gvk) IN
  IF objType \in st.set THEN st
  ELSE [set |-> st.set \cup {objType},
        resourceDistinct |-> Append(st.resourceDistinct, resource)]

\* Lines 20-25, the body of the inner loop: st holds set and
\* resourceDistinct.
visitResource(st, resource) ==
  LET objType == resource.gvk IN
  IF objType \in st.set THEN st
  ELSE [set |-> st.set \cup {objType},
        resourceDistinct |-> Append(st.resourceDistinct, resource)]

\* Lines 19-26: the inner loop over one platform's list.
RECURSIVE rangePlatformGroup(_, _)
rangePlatformGroup(platformGroup, st) ==
  IF platformGroup = << >> THEN st
  ELSE rangePlatformGroup(Tail(platformGroup),
                          visitResource(st, Head(platformGroup)))

\* Lines 18-27: the outer loop over the platforms.
RECURSIVE rangeResourceUnion(_, _)
rangeResourceUnion(union, st) ==
  IF union = << >> THEN st
  ELSE rangeResourceUnion(Tail(union), rangePlatformGroup(Head(union), st))

\* OwnedResourcesGroup, lines 11-30, on the lists of line 13.
OwnedResourcesGroup(union) ==
  rangeResourceUnion(union,
                     [set |-> {}, resourceDistinct |-> << >>]).resourceDistinct

\* A call of OwnedResourcesGroup returns.
OwnedResourcesGroupReturns ==
  /\ ~ownedResult.returned
  /\ ownedResult' =
       [returned |-> TRUE, val |-> OwnedResourcesGroup(resourceUnion)]
  /\ UNCHANGED << cacheVars, callVars, eventVars, eventChan, streams,
                  resourceUnion >>

\* ---------------------------------------------------------- specifications
NoCallInFlight == \A t \in Threads : pc[t] = "idle"

\* Watch calls that do not overlap, on every kind of object: a goroutine
\* calls when no call is in flight.
Next ==
  \/ \E t \in Threads, o \in Objs : NoCallInFlight /\ WatchCall(t, o)
  \/ \E t \in Threads : WatchStep(t)

Spec == Init /\ [][Next]_vars

\* The objects watched while changes are delivered.
EventObjs ==
  { Obj(ConfigMapV1, "ns1", "a"), Obj(ConfigMapV1, "ns1", "b"),
    Obj(ConfigMapV1, "ns2", "a") }

\* The goroutine of a caller that makes its Watch calls one after the other.
Caller == 1

\* One caller, with the informers' goroutines and the consumer of the event
\* stream running beside it.
NextEvent ==
  \/ \E o \in EventObjs : nCalls < MaxWatches /\ WatchCall(Caller, o)
  \/ WatchStep(Caller)
  \/ Delivery

EventSpec == Init /\ [][NextEvent]_vars

\* The objects watched under the consumer that keeps receiving: two names
\* on one informer.
LiveObjs == { Obj(ConfigMapV1, "ns1", "a"), Obj(ConfigMapV1, "ns1", "b") }

NextLive ==
  \/ \E o \in LiveObjs : nCalls < MaxLiveWatches /\ WatchCall(Caller, o)
  \/ WatchStep(Caller)
  \/ Delivery /\ Len(observed') <= MaxLiveEvents

\* One caller, the informers' goroutines and a consumer that keeps
\* receiving: a handler standing in the send of line 227 is received from
\* in the end.
LiveSpec ==
  /\ Init /\ [][NextLive]_vars
  /\ \A i \in 1..MaxLiveWatches :
       WF_vars(i \in DOMAIN handlers /\ Receive(i))

\* The objects watched while contexts end: one name in each of two
\* namespaces.
CancelObjs == { Obj(ConfigMapV1, "ns1", "a"), Obj(ConfigMapV1, "ns2", "a") }

\* One caller, delivery, and the ending of the contexts the sessions were
\* started under.
NextCancel ==
  \/ \E o \in CancelObjs : nCalls < MaxLiveWatches /\ WatchCall(Caller, o)
  \/ WatchStep(Caller)
  \/ Delivery /\ Len(observed') <= MaxCancelEvents
  \/ \E s \in DOMAIN sessions : Cancel(s)

CancelSpec == Init /\ [][NextCancel]_vars

\* Watch calls that do not overlap, with calls of EventStream at any point
\* between their steps.
NextStream ==
  \/ \E t \in Threads, o \in EventObjs : NoCallInFlight /\ WatchCall(t, o)
  \/ \E t \in Threads : WatchStep(t)
  \/ EventStream

StreamSpec == Init /\ [][NextStream]_vars

\* Objects that differ from ConfigMap ns1/a in the version only, in the
\* name, in the namespace, in the group-kind.
KeyObjs ==
  { Obj(ConfigMapV1, "ns1", "a"), Obj(ConfigMapV1beta1, "ns1", "a"),
    Obj(ConfigMapV1, "ns1", "b"), Obj(ConfigMapV1, "ns2", "a"),
    Obj(NodeV1, "ns1", "a") }

\* Watch calls that do not overlap, on these objects.
NextKey ==
  \/ \E t \in Threads, o \in KeyObjs : NoCallInFlight /\ WatchCall(t, o)
  \/ \E t \in Threads : WatchStep(t)

KeySpec == Init /\ [][NextKey]_vars

\* OwnedResourcesGroup on every value of resourceUnion within the bounds.
InitGroup ==
  /\ NewNamespacedCache
  /\ resourceUnion \in ResourceUnions
  /\ ownedResult = NotReturned

NextGroup == OwnedResourcesGroupReturns

GroupSpec == InitGroup /\ [][NextGroup]_vars

\* The objects of the concurrent calls.
ConcObjs ==
  { Obj(ConfigMapV1, "ns1", "a"), Obj(ConfigMapV1, "ns1", "b"),
    Obj(ConfigMapV1, "", "a") }

\* Watch calls of several goroutines, interleaved at their steps.
NextConc ==
  \/ \E t \in Threads, o \in ConcObjs :
       nCalls < MaxConcCalls /\ WatchCall(t, o)
  \/ \E t \in Threads : WatchStep(t)

ConcSpec == Init /\ [][NextConc]_vars

\* ------------------------------------------------------ derived notions
\* The watch keys registered for namespace ns.
Registry(ns) ==
  IF watchedResources[ns] = 0 THEN {} ELSE maps[watchedResources[ns]]

Registered(o) == watchKey(o).key \in Registry(o.ns)

\* The handlers attached for object o: on a session of o's namespace, on the
\* informer of o's group-kind, bound to o's name.
Forwarders(o) ==
  { i \in DOMAIN handlers :
      /\ sessions[handlers[i].session].ns = o.ns
      /\ GroupKind(handlers[i].gvk) = GroupKind(o.gvk)
      /\ handlers[i].name = o.name }

\* The object a handler was attached for.
HandlerObj(h) == Obj(h.gvk, sessions[h.session].ns, h.name)

Returned(t) == pc[t] = "idle" /\ ret[t].val # "none"

\* Goroutine t takes the step that stands at label l.
Steps(t, l) == pc[t] = l /\ pc'[t] # l

\* A namespace-scoped kind with the namespace left empty.
MissingNamespace(o) == GroupKind(o.gvk) \in NamespacedKinds /\ o.ns = ""

\* ------------------------------------------------------------------ C1
\* C1: a handler bound to name A pushes onto the event stream only
\* notifications whose object is called A: whatever it stands sending, and
\* whatever the consumer received from it, carries its own name.
C1_FilteringByName ==
  /\ \A i \in DOMAIN handlers :
       handlers[i].sending => Head(handlers[i].inbox).name = handlers[i].name
  /\ \A k \in DOMAIN received :
       received[k].name = handlers[received[k].handler].name

\* ------------------------------------------------------------------ C2
\* C2: with calls that do not overlap, no object ever has two handlers
\* attached (the registry is a set of keys per namespace, so it holds a key
\* at most once), and the steps of a Watch call for a registered object
\* change neither pool, sessions, handlers nor registry, obtain no informer,
\* and end in the return nil of line 104.
C2_NoSecondForwarder ==
  \A i, j \in DOMAIN handlers :
    (/\ sessions[handlers[i].session].ns = sessions[handlers[j].session].ns
     /\ watchKey(HandlerObj(handlers[i])).key
          = watchKey(HandlerObj(handlers[j])).key) => i = j

C2_RegisteredCallStep ==
  \A t \in Threads :
    ((Steps(t, "L84") \/ Steps(t, "L99")) /\ Registered(obj[t])) =>
      /\ UNCHANGED cacheVars
      /\ informer'[t] = 0
      /\ \/ pc[t] = "L84" /\ pc'[t] = "L99"
         \/ /\ pc[t] = "L99" /\ pc'[t] = "idle"
            /\ ret'[t] = [val |-> "nil", line |-> 104]

C2_IdempotentWatch ==
  [](C2_NoSecondForwarder) /\ [][C2_RegisteredCallStep]_vars

\* A second call for a registered object has returned nil at line 104, and
\* the object has its one handler.
C2_Witness ==
  \E t \in Threads :
    /\ Returned(t)
    /\ ret[t] = [val |-> "nil", line |-> 104]
    /\ Registered(obj[t])
    /\ Cardinality(Forwarders(obj[t])) = 1

\* ------------------------------------------------------------------ C3
\* How often the consumer received the change with number id.
RECURSIVE CountIn(_, _)
CountIn(seq, id) ==
  IF seq = << >> THEN 0
  ELSE (IF Head(seq).id = id THEN 1 ELSE 0) + CountIn(Tail(seq), id)

\* Change id was handed to a handler bound to the changed object's name.
ToMatchingHandler(id) ==
  \E i \in observed[id].to : handlers[i].name = observed[id].name

AllHandled == \A i \in DOMAIN handlers : handlers[i].inbox = << >>

\* C3: a change a session observed on an object, handed over as an object,
\* is received at most once; not at all when no handler bound to that name
\* got it; and exactly once, when every handler has worked off its inbox,
\* if a handler bound to that name got it.
C3_ExactlyOnce ==
  \A id \in DOMAIN observed :
    observed[id].payload = "object" =>
      /\ CountIn(received, id) <= 1
      /\ ~ToMatchingHandler(id) => CountIn(received, id) = 0
      /\ (AllHandled /\ ToMatchingHandler(id)) => CountIn(received, id) = 1

\* ------------------------------------------------------------------ C4
\* C4: a Watch call that saw session construction or the accessor fail has
\* returned an error; a Watch call that returned nil has its key in the
\* registry and a handler attached.
C4_ErrorSurfacing ==
  \A t \in Threads :
    Returned(t) =>
      /\ stepErr[t] \in {"construction", "accessor"} => ret[t].val = "err"
      /\ ret[t].val = "nil" =>
           Registered(obj[t]) /\ Forwarders(obj[t]) # {}

\* ------------------------------------------------------------------ C5
\* C5: the first step of a Watch call on a namespace-scoped kind with an
\* empty namespace returns an error and leaves pool, sessions, registry,
\* handlers and what the consumer received unchanged.
C5_ValidationStep ==
  \A t \in Threads :
    (Steps(t, "L84") /\ MissingNamespace(obj[t])) =>
      /\ pc'[t] = "idle"
      /\ ret'[t].val = "err"
      /\ UNCHANGED << caches, sessions, watchedResources, maps, handlers,
                      received >>

C5_NamespaceValidation == [][C5_ValidationStep]_vars

\* Such a call has returned its error while a session and a registration of
\* an earlier call exist.
C5_Witness ==
  \E t \in Threads :
    /\ Returned(t)
    /\ MissingNamespace(obj[t])
    /\ ret[t] = [val |-> "err", line |-> 85]
    /\ stepErr[t] = "namespace"
    /\ sessions # << >>
    /\ \E ns \in Namespaces : Registry(ns) # {}

\* ------------------------------------------------------------------ C6
\* C6: once all of the concurrent Watch calls have returned, no object has
\* more than one handler attached, and an object for which a call returned
\* nil has exactly one handler and its key in the registry.
C6_ConcurrentRegistration ==
  (\A t \in Threads : pc[t] = "idle") =>
    /\ \A i \in DOMAIN handlers :
         Cardinality(Forwarders(HandlerObj(handlers[i]))) = 1
    /\ \A t \in Threads :
         (Returned(t) /\ ret[t].val = "nil" /\ stepErr[t] = "none") =>
           Registered(obj[t]) /\ Cardinality(Forwarders(obj[t])) = 1

\* ------------------------------------------------------------------ C7
\* C7: no two sessions are ever constructed for one namespace, and a pool
\* entry, once set, is never replaced.
C7_OneSession ==
  \A i, j \in DOMAIN sessions : sessions[i].ns = sessions[j].ns => i = j

C7_PoolEntryKept ==
  \A ns \in Namespaces : caches[ns] # 0 => caches'[ns] = caches[ns]

C7_OneSessionPerNamespace == [](C7_OneSession) /\ [][C7_PoolEntryKept]_vars

\* ------------------------------------------------------------------ C8
\* C8: a handler for a cluster-scoped kind is attached to the session of
\* the empty namespace only, a handler for a namespace-scoped kind to a
\* session of a non-empty namespace only, and no session carries handlers
\* of both scopes.
C8_ScopePartition ==
  /\ \A i \in DOMAIN handlers :
       LET gk == GroupKind(handlers[i].gvk)
           ns == sessions[handlers[i].session].ns
       IN /\ gk \in ClusterKinds => ns = ""
          /\ gk \in NamespacedKinds => ns # ""
  /\ \A i, j \in DOMAIN handlers :
       handlers[i].session = handlers[j].session =>
         ~(/\ GroupKind(handlers[i].gvk) \in ClusterKinds
           /\ GroupKind(handlers[j].gvk) \in NamespacedKinds)

\* ------------------------------------------------------------------ C9
\* C9: every registered key has a pool entry for its namespace and a handler
\* attached for its object; a key enters the registry only by the last step
\* of a call that saw no error, returns nil and had its handler attached
\* before that step.
C9_RegisteredIsBacked ==
  \A ns \in Namespaces :
    Registry(ns) # {} =>
      /\ caches[ns] # 0
      /\ \A key \in Registry(ns) :
           \E i \in DOMAIN handlers :
             /\ sessions[handlers[i].session].ns = ns
             /\ watchKey(HandlerObj(handlers[i])).key = key

C9_RecordedLast ==
  \A ns \in Namespaces :
    \A key \in Registry(ns)' \ Registry(ns) :
      \E t \in Threads :
        /\ pc[t] = "L131" /\ pc'[t] = "idle"
        /\ obj[t].ns = ns /\ watchKey(obj[t]).key = key
        /\ stepErr'[t] = "none" /\ ret'[t].val = "nil"
        /\ Forwarders(obj[t]) # {}

C9_NoStaleRegistryEntry ==
  [](C9_RegisteredIsBacked) /\ [][C9_RecordedLast]_vars

\* A key is registered by one call while another call for the same
\* namespace has failed at the accessor.
C9_Witness ==
  \E t, u \in Threads :
    /\ Returned(t) /\ stepErr[t] = "accessor"
    /\ Returned(u) /\ ret[u] = [val |-> "nil", line |-> 133]
    /\ obj[t].ns = obj[u].ns
    /\ Registered(obj[u])

\* ------------------------------------------------------------------ C10
\* A call, once it holds its informer, goes on to attach its handler and to
\* record its key, and returns nil.
C10_GoesOnToRegister ==
  \A t \in Threads :
    /\ Steps(t, "L114") => pc'[t] = "L126" /\ Forwarders(obj[t])' # {}
    /\ Steps(t, "L126") => pc'[t] \in {"L128", "L131"}
    /\ Steps(t, "L128") => pc'[t] = "L131"
    /\ Steps(t, "L131") =>
         /\ pc'[t] = "idle" /\ ret'[t].val = "nil"
         /\ Registered(obj[t])' /\ Forwarders(obj[t])' # {}

\* A returned call on a valid, unregistered object whose namespace still
\* has no pool entry did attempt construction.
C10_AttemptsAgain ==
  \A t \in Threads :
    (/\ Returned(t)
     /\ ensureNamespace(obj[t]) = "none"
     /\ caches[obj[t].ns] = 0) => stepErr[t] = "construction"

\* An earlier call, of another goroutine, failed at construction in the
\* namespace of t's call.
AfterFailedConstruction(t) ==
  \E u \in Threads \ {t} :
    Returned(u) /\ stepErr[u] = "construction" /\ obj[u].ns = obj[t].ns

\* A construction that fails leaves the pool as it was.
C10_FailureNotMemoized ==
  \A t \in Threads :
    (Steps(t, "L149") /\ sessions' = sessions) =>
      caches' = caches /\ stepErr'[t] = "construction"

\* C10 as stated: a failed construction leaves the namespace without pool
\* entry, a later call for the namespace attempts construction again, and a
\* construction that then succeeds is followed by the attaching of the
\* handler and the recording of the key.
C10_RetrySucceedsStated ==
  \A t \in Threads :
    (Steps(t, "L149") /\ AfterFailedConstruction(t)
       /\ sessions' # sessions) => pc'[t] = "L114"

C10_RetryAsStated ==
  /\ [](C10_AttemptsAgain)
  /\ [][/\ C10_FailureNotMemoized
        /\ C10_RetrySucceedsStated
        /\ C10_GoesOnToRegister]_vars

\* C10 amended: a construction that succeeds is followed by the attaching
\* of the handler and the recording of the key if the accessor succeeds as
\* well; if the accessor fails the call returns with the new session in the
\* pool and nothing attached or recorded.
C10_RetrySucceeds ==
  \A t \in Threads :
    (Steps(t, "L149") /\ sessions' # sessions) =>
      /\ caches'[obj[t].ns] = Len(sessions')
      /\ \/ pc'[t] = "L114"
         \/ /\ pc'[t] = "idle" /\ stepErr'[t] = "accessor"
            /\ UNCHANGED << handlers, watchedResources, maps >>

C10_RetryAfterFailure ==
  /\ [](C10_AttemptsAgain)
  /\ [][/\ C10_FailureNotMemoized
        /\ C10_RetrySucceeds
        /\ C10_GoesOnToRegister]_vars

\* One call failed at construction in a namespace, and a later call for the
\* same namespace constructed the session and registered its key.
C10_Witness ==
  \E t, u \in Threads :
    /\ Returned(t) /\ stepErr[t] = "construction"
    /\ Returned(u) /\ ret[u] = [val |-> "nil", line |-> 133]
    /\ obj[u].ns = obj[t].ns
    /\ caches[obj[u].ns] # 0
    /\ Registered(obj[u]) /\ Forwarders(obj[u]) # {}

\* ------------------------------------------------------------------ C11
\* The handlers attached on sessions of namespace ns.
HandlersOf(ns) ==
  { i \in DOMAIN handlers : sessions[handlers[i].session].ns = ns }

\* The step of getInformer in which cache.New fails for the namespace of the
\* call leaves sessions and handlers as they were, and the pool entry and
\* the registry of every other namespace.
C11_FailureStep ==
  \A t \in Threads :
    (Steps(t, "L149") /\ stepErr'[t] = "construction") =>
      /\ sessions' = sessions
      /\ handlers' = handlers
      /\ \A ns \in Namespaces \ {obj[t].ns} :
           /\ caches'[ns] = caches[ns]
           /\ watchedResources'[ns] = watchedResources[ns]
           /\ Registry(ns)' = Registry(ns)

\* After such a failure a handler of another namespace that holds a
\* notification can be called with it or, standing in its send, can be
\* received from.
C11_StillDelivering ==
  \A t \in Threads :
    (Returned(t) /\ stepErr[t] = "construction") =>
      \A ns \in Namespaces \ {obj[t].ns} :
        \A i \in HandlersOf(ns) :
          handlers[i].inbox # << >> => ENABLED (OnDelete(i) \/ Receive(i))

\* C11: a Watch call whose session construction fails for a namespace
\* leaves pool entries, registry entries and handlers of every other
\* namespace unchanged, and the notifications of the other namespaces go on
\* being delivered.
C11_FailureIsolation ==
  [](C11_StillDelivering) /\ [][C11_FailureStep]_vars

\* Construction has failed for one namespace while another namespace has
\* its pool entry and its registered key, the consumer has received one of
\* its notifications and its handler stands in the send of the next.
C11_Witness ==
  \E t \in Threads :
    /\ Returned(t) /\ stepErr[t] = "construction"
    /\ \E ns \in Namespaces \ {obj[t].ns} :
         /\ caches[ns] # 0 /\ Registry(ns) # {}
         /\ \E i \in HandlersOf(ns) : handlers[i].sending
         /\ \E k \in DOMAIN received : received[k].handler \in HandlersOf(ns)

\* ------------------------------------------------------------------ C12
\* C12: once all of the concurrent Watch calls have returned, the key of
\* every call that went through to the return nil of line 133 is in its
\* namespace's registry.
C12_NoLostRegistration ==
  NoCallInFlight =>
    \A t \in Threads :
      (Returned(t) /\ ret[t] = [val |-> "nil", line |-> 133]) =>
        Registered(obj[t])

\* ------------------------------------------------------------------ C13
\* No step removes a key from the registry of a namespace.
C13_RegistryGrows ==
  \A ns \in Namespaces : Registry(ns) \subseteq Registry(ns)'

\* C13: a (namespace, key) that is in the registry is there in every later
\* state.
C13_RegistrationIsTerminal == [][C13_RegistryGrows]_vars

\* ------------------------------------------------------------------ C14
\* Handler i stands in the send of line 227 with change id.
Accepted(i, id) ==
  /\ i \in DOMAIN handlers
  /\ handlers[i].sending
  /\ Head(handlers[i].inbox).id = id

\* The consumer has received change id from handler i.
Delivered(i, id) ==
  \E k \in DOMAIN received :
    received[k].id = id /\ received[k].handler = i

\* A notification that queueEventForObject sends leaves its handler only
\* when the consumer receives it: the handler stood in the send and the
\* notification is the next the consumer holds.  The consumer receives one
\* notification per step, from a handler standing in its send, and nothing
\* it has received is taken back.
C14_PushStep ==
  /\ \A i \in DOMAIN handlers :
       (/\ handlers[i].inbox # << >>
        /\ queueEventForObject(handlers[i].name, Head(handlers[i].inbox))
        /\ \/ Len(handlers'[i].inbox) < Len(handlers[i].inbox)
           \/ handlers[i].sending /\ ~handlers'[i].sending) =>
         /\ handlers[i].sending
         /\ handlers'[i].inbox = Tail(handlers[i].inbox)
         /\ received' = Append(received,
              [id |-> Head(handlers[i].inbox).id,
               name |-> Head(handlers[i].inbox).name, handler |-> i])
  /\ received' # received =>
       \E i \in DOMAIN handlers :
         /\ handlers[i].sending /\ ~handlers'[i].sending
         /\ Len(received') = Len(received) + 1
         /\ SubSeq(received', 1, Len(received)) = received

\* C14: a handler's push completes only when the consumer receives the
\* notification, and with a consumer that keeps receiving every
\* notification a handler stands sending is received in the end.
C14_BackpressureWithoutLoss ==
  /\ [][C14_PushStep]_vars
  /\ \A i \in 1..MaxLiveWatches, id \in 1..MaxLiveEvents :
       Accepted(i, id) ~> Delivered(i, id)

\* One handler stands in the send while the consumer has already received
\* a notification from another.
C14_Witness ==
  \E i, j \in DOMAIN handlers :
    /\ i # j
    /\ handlers[j].sending
    /\ \E id \in DOMAIN observed : Delivered(i, id)

\* ------------------------------------------------------------------ C15
\* Changes x and y are changes of one object: observed by one session, on
\* one kind, under one name.
SameObject(x, y) ==
  /\ observed[x].session = observed[y].session
  /\ GroupKind(observed[x].gvk) = GroupKind(observed[y].gvk)
  /\ observed[x].name = observed[y].name

\* C15: of two notifications on the event stream that belong to one watched
\* object, the one received first was observed first (the changes are
\* numbered in the order in which the sessions observed them).
C15_PerObjectOrder ==
  \A k, l \in DOMAIN received :
    (/\ k < l
     /\ SameObject(received[k].id, received[l].id)
     /\ ToMatchingHandler(received[k].id)) =>
      received[k].id <= received[l].id

\* ------------------------------------------------------------------ C16
\* The context of handler i's session has ended.
Stopped(i) == sessions[handlers[i].session].done

\* The step in which a session's context ends changes neither pool nor
\* registry nor the handlers.
C16_CancelFrame ==
  (\E s \in DOMAIN sessions : ~sessions[s].done /\ sessions'[s].done) =>
    UNCHANGED << caches, watchedResources, maps, handlers >>

\* While the context of one session has ended, a handler of a session whose
\* context has not holds no notification that could not be worked off, and
\* such a session can observe a further change.
C16_OthersDeliver ==
  (\E s \in DOMAIN sessions : sessions[s].done) =>
    \A i \in DOMAIN handlers :
      ~Stopped(i) =>
        /\ handlers[i].inbox # << >> => ENABLED (OnDelete(i) \/ Receive(i))
        /\ Len(observed) < MaxEvents =>
             ENABLED Observe(handlers[i].session, handlers[i].gvk,
                             handlers[i].name, "object")

\* The consumer receives nothing from a handler whose session's context has
\* ended.
C16_NoPushAfterCancel ==
  received' # received =>
    ~Stopped(received'[Len(received')].handler)

C16_NoPushBegunAfterCancel ==
  /\ Len(observed') > Len(observed) =>
       ~sessions[observed'[Len(observed')].session].done
  /\ \A i \in DOMAIN handlers :
       Stopped(i) =>
         /\ Len(handlers'[i].inbox) <= Len(handlers[i].inbox)
         /\ handlers'[i].sending => handlers[i].sending
         /\ handlers'[i].inbox # handlers[i].inbox =>
              /\ handlers[i].sending
              /\ received' = Append(received,
                   [id |-> Head(handlers[i].inbox).id,
                    name |-> Head(handlers[i].inbox).name, handler |-> i])

C17_SameStream ==
  /\ \A k \in DOMAIN streams : streams[k] = streams[1] /\ streams[k] = eventChan
  /\ \A i \in DOMAIN handlers : handlers[i].eventsChan = eventChan

\* A call of EventStream changes nothing but the record of what it
\* returned, and no step changes n.eventChan.
C17_StreamFrame ==
  /\ streams' # streams =>
       /\ streams' = Append(streams, eventChan)
       /\ UNCHANGED << cacheVars, callVars, eventVars >>
  /\ eventChan' = eventChan

\* C17: EventStream returns the same stream on every call, whatever Watch
\* calls lie before or between them, and a call of it changes no state of the
\* cache.
C17_StableEventStream == [](C17_SameStream) /\ [][C17_StreamFrame]_vars

\* EventStream has been called at least twice, and a Watch call has built a
\* session, attached a handler and registered a key.
C17_Witness ==
  /\ Len(streams) >= 2
  /\ handlers # << >>
  /\ \E t \in Threads :
       /\ Returned(t) /\ ret[t] = [val |-> "nil", line |-> 133]
       /\ Registered(obj[t])

\* ------------------------------------------------------------------ C18
\* Objects o and p agree on namespace, API group, kind and name.
SameIdentity(o, p) ==
  /\ o.ns = p.ns
  /\ o.gvk.group = p.gvk.group
  /\ o.gvk.kind = p.gvk.kind
  /\ o.name = p.name

\* Objects o and p have the same entry of the registry: the same key in
\* the same namespace.
SameEntry(o, p) == o.ns = p.ns /\ watchKey(o).key = watchKey(p).key

\* The call of goroutine t has returned nil with its object registered.
Succeeded(t) ==
  /\ Returned(t) /\ stepErr[t] = "none"
  /\ ret[t] \in {[val |-> "nil", line |-> 133], [val |-> "nil", line |-> 104]}

\* C18: two objects have the same registry entry exactly when they agree on
\* namespace, group, kind and name.  Of two calls that returned nil, with no
\* call in flight, both objects are registered; if the objects agree on all
\* but the version they share one entry and one handler, and if they differ
\* in namespace, group-kind or name each has its own entry and its own one
\* handler.
C18_WatchKeyEquivalence ==
  /\ \A o, p \in KeyObjs : SameEntry(o, p) <=> SameIdentity(o, p)
  /\ NoCallInFlight =>
       \A t, u \in Threads :
         (Succeeded(t) /\ Succeeded(u)) =>
           /\ Registered(obj[t]) /\ Registered(obj[u])
           /\ Cardinality(Forwarders(obj[t])) = 1
           /\ Cardinality(Forwarders(obj[u])) = 1
           /\ IF SameIdentity(obj[t], obj[u])
              THEN Forwarders(obj[t]) = Forwarders(obj[u])
              ELSE /\ Forwarders(obj[t]) \cap Forwarders(obj[u]) = {}
                   /\ ~SameEntry(obj[t], obj[u])

\* Two calls have returned nil for objects that differ in the version only:
\* one registered the key at line 133, the other found it at line 104, and
\* there is one handler for both.
C18_Witness ==
  \E t, u \in Threads :
    /\ NoCallInFlight /\ Succeeded(t) /\ Succeeded(u)
    /\ SameIdentity(obj[t], obj[u])
    /\ obj[t].gvk.version # obj[u].gvk.version
    /\ ret[t].line = 133 /\ ret[u].line = 104
    /\ Cardinality(Forwarders(obj[t])) = 1
    /\ Cardinality(Registry(obj[t].ns)) >= 2

\* ------------------------------------------------------------------ C19
\* C19: with calls that do not overlap and none in flight, a namespace that
\* has a pool entry has a registered key.
C19_PoolRegistryAligned ==
  NoCallInFlight =>
    \A ns \in Namespaces : caches[ns] # 0 => Registry(ns) # {}

\* ------------------------------------------------------------------ C20
\* The resources of all platforms' lists in the order of the input.
RECURSIVE InInputOrder(_)
InInputOrder(union) ==
  IF union = << >> THEN << >> ELSE Head(union) \o InInputOrder(Tail(union))

\* C20: the result of OwnedResourcesGroup holds no two resources of one
\* group-version-kind, holds a resource of every group-version-kind that
\* occurs in a list of the input, and each resource it holds is the first of
\* its group-version-kind in the order of the input.
C20_DistinctByGVK ==
  ownedResult.returned =>
    LET r == ownedResult.val
        in == InInputOrder(resourceUnion)
    IN /\ \A i, j \in DOMAIN r : r[i].gvk = r[j].gvk => i = j
       /\ \A k \in DOMAIN in : \E i \in DOMAIN r : r[i].gvk = in[k].gvk
       /\ \A i \in DOMAIN r :
            \E k \in DOMAIN in :
              /\ in[k] = r[i]
              /\ \A m \in 1..(k - 1) : in[m].gvk # r[i].gvk

\* The call has returned on two platforms' lists that hold different
\* resources of one group-version-kind and a resource of the same group-kind
\* in another version.
C20_Witness ==
  /\ ownedResult.returned
  /\ Len(resourceUnion) = 2
  /\ \E x \in DOMAIN resourceUnion[1], y \in DOMAIN resourceUnion[2] :
       /\ resourceUnion[1][x].gvk = resourceUnion[2][y].gvk
       /\ resourceUnion[1][x].name # resourceUnion[2][y].name
  /\ Len(ownedResult.val) = 2
====
